---- MODULE Spec2Model ----
(***************************************************************************)
(* Model of the userbase Telegram bots.                                    *)
(*                                                                         *)
(*   bot.py  : registration by an upsert (update_one, upsert=True) from    *)
(*             start_command and confirmation_button_handler, and the      *)
(*             admin commands ping_command, id_command, full_command.      *)
(*   main.py : registration by find_one followed by insert_one.            *)
(*                                                                         *)
(* Handlers are coroutines on one event loop.  The pymongo calls are       *)
(* synchronous, so a handler can only be interleaved with another handler  *)
(* of the same process at an `await` of a Telegram call; every action      *)
(* below is the code between two such awaits.  Handlers of different       *)
(* processes interleave at every store call.                               *)
(*                                                                         *)
(* Text is a sequence of one-character strings, so that strip(), join()    *)
(* and str() are computed and not assumed.                                 *)
(***************************************************************************)
EXTENDS Integers, Sequences, FiniteSets, Bags, TLC

\* ------------------------------------------------------------------ bounds

\* The clock (datetime.utcnow()) takes the values 0..MaxClock.
MaxClock == 1

\* Handler invocations of bot.py that can be suspended at an await at the
\* same time.
MaxTasks == 2

\* Processes of main.py that share users_collection.
MaxProcs == 2

\* ------------------------------------------------------------ Python values

None == [t |-> "NoneType", v |-> <<>>]

Str(s) == [t |-> "str", v |-> s]

\* bool(x) of an Optional[str]: None and "" are falsy.
Truthy(x) == x.t = "str" /\ x.v # <<>>

\* f"{x}" of an Optional[str]: None is formatted as the text None.
Format(x) == IF x.t = "NoneType" THEN <<"N", "o", "n", "e">> ELSE x.v

\* dict.get(key, default): the default is used only when the key is absent.
DictGet(doc, key, default) == IF key \in DOMAIN doc THEN doc[key] ELSE default

DigitChars == <<"0", "1", "2", "3", "4", "5", "6", "7", "8", "9">>

RECURSIVE IntToStr(_)
\* str(n) of a non-negative int.
IntToStr(n) ==
    IF n < 10 THEN <<DigitChars[n + 1]>>
    ELSE IntToStr(n \div 10) \o <<DigitChars[(n % 10) + 1]>>

DigitValue(c) == (CHOOSE i \in 1..10 : DigitChars[i] = c) - 1

RECURSIVE StrToInt(_)
\* int(s) of a non-empty string of decimal digits.
StrToInt(s) ==
    IF Len(s) = 1 THEN DigitValue(s[1])
    ELSE 10 * StrToInt(SubSeq(s, 1, Len(s) - 1)) + DigitValue(s[Len(s)])

RECURSIVE Split(_, _)
\* s.split(sep) for a one-character separator.
Split(s, sep) ==
    IF \A i \in 1..Len(s) : s[i] # sep THEN <<s>>
    ELSE LET k == CHOOSE i \in 1..Len(s) :
                      s[i] = sep /\ \A j \in 1..(i - 1) : s[j] # sep
         IN  <<SubSeq(s, 1, k - 1)>> \o Split(SubSeq(s, k + 1, Len(s)), sep)

Whitespace == {" ", "\t", "\n", "\r"}

RECURSIVE LStrip(_)
LStrip(s) ==
    IF s # <<>> /\ s[1] \in Whitespace THEN LStrip(Tail(s)) ELSE s

RECURSIVE RStrip(_)
RStrip(s) ==
    IF s # <<>> /\ s[Len(s)] \in Whitespace
    THEN RStrip(SubSeq(s, 1, Len(s) - 1)) ELSE s

\* s.strip()
Strip(s) == RStrip(LStrip(s))

RECURSIVE Join(_, _)
\* sep.join(parts)
Join(sep, parts) ==
    IF parts = <<>> THEN <<>>
    ELSE IF Len(parts) = 1 THEN parts[1]
    ELSE parts[1] \o sep \o Join(sep, Tail(parts))

\* ------------------------------------------------------------------ inputs

Ann == <<"A", "n", "n">>
Bob == <<"B", "o", "b">>
Lee == <<"L", "e", "e">>
Handle == <<"b", "1">>

\* A telegram.User: first_name is a str, last_name and username are optional.
User(id, first, lastName, username) ==
    [id |-> id, first_name |-> Str(first), last_name |-> lastName,
     username |-> username, is_bot |-> FALSE]

\* The actors the platform delivers events of.  Actor 42 is seen with two
\* profiles: it sets a last name and a username between two events.
Users ==
    { User(5, Ann, None, None),
      User(42, Bob, None, None),
      User(42, Bob, Str(Lee), Str(Handle)) }

UserIds == { u.id : u \in Users }

\* The value of the environment variable SUDO_TELEGRAM_IDS.
SudoEnvValues == { <<"5", ",", "7">> }

\* set(map(int, SUDO_TELEGRAM_IDS_STR.split(',')))
ParseSudoIds(s) ==
    LET parts == Split(s, ",") IN { StrToInt(parts[i]) : i \in 1..Len(parts) }

\* ------------------------------------------------------------------- state

VARIABLES
    telegram_users_collection, \* bot.py: the documents, in natural order
    SUDO_OWNER_IDS,            \* bot.py: the admin set
    clock,                     \* the value datetime.utcnow() returns now
    pending,                   \* bot.py: the bag of handlers suspended at an await
    last,                      \* bot.py: the handler step that ran last, its actor
    db_op,                     \* bot.py: the store operation that step issued
    log,                       \* bot.py: the record that step logged
    outbox,                    \* bot.py: the Telegram call that step made
    users_collection,          \* main.py: the documents, in natural order
    main_pc,                   \* main.py: per process, the start handler's position
    main_last,                 \* main.py: the start event handled last
    main_out                   \* main.py: the reply sent last

botVars == <<telegram_users_collection, SUDO_OWNER_IDS, clock, pending, last,
             db_op, log, outbox>>

mainVars == <<users_collection, main_pc, main_last, main_out>>

vars == <<botVars, mainVars>>

Procs == 1..MaxProcs

\* A Telegram call: who it goes to, which call, its text, and for
\* reply_document the file name, the file's content and the caption.
Message(to, kind, text) ==
    [to |-> to, kind |-> kind, text |-> text,
     filename |-> "", document |-> <<>>, caption |-> <<>>]

Document(to, filename, content, caption) ==
    [to |-> to, kind |-> "reply_document", text |-> "",
     filename |-> filename, document |-> content, caption |-> caption]

NoMessage == Message(0, "none", "")
NoLog == [level |-> "none", msg |-> "none"]
NoOp == [op |-> "none", by |-> 0]
NoUser == None
NoEvent == [handler |-> "none", user |-> NoUser]
Idle == [pc |-> "idle", user |-> NoUser]

\* The texts of the replies, without their leading emoji; the latencies of
\* the pong text are left as <ms>.
WelcomeText == "Thank you! Bot is updated and will receive all future updates."
ConfirmedText == "Confirmed! Thank you for staying with us."
PingingText == "Pinging..."
PongText == "Pong! Bot latency: <ms> Database ping: <ms>"
PongFailedText == "Pong! Bot latency: <ms> Database ping: FAILED"
EmptyText == "The database is empty. No users have registered yet."
ReportErrorText == "An error occurred while generating the report."
AddedText == "You have been added to the database."
AlreadyText == "You are already in the database."

\* ------------------------------------------------------- bot.py: the store

\* The fields of b laid over the fields of a.
Merge(a, b) ==
    [k \in (DOMAIN a) \cup (DOMAIN b) |-> IF k \in DOMAIN b THEN b[k] ELSE a[k]]

\* The positions of the documents with this telegram_id.
Matching(coll, id) == { i \in 1..Len(coll) : coll[i].telegram_id = id }

\* update_one without its filter: every call inserts.
UpdateOneAlwaysInserts(coll, id, set, onInsert) ==
    [coll |-> Append(coll, Merge(Merge([telegram_id |-> id], set), onInsert)),
     upserted |-> TRUE]

\* update_one({'telegram_id': id}, {'$set': set, '$setOnInsert': onInsert},
\* upsert=True): one command, which the server applies to the first matching
\* document, or to a new document made of the filter's fields when none matches.
UpdateOne(coll, id, set, onInsert) ==
    LET m == Matching(coll, id) IN
    IF m # {}
    THEN LET i == CHOOSE j \in m : \A k \in m : j <= k
         IN  [coll |-> [coll EXCEPT ![i] = Merge(coll[i], set)],
              upserted |-> FALSE]
    ELSE [coll |-> Append(coll, Merge(Merge([telegram_id |-> id], set), onInsert)),
          upserted |-> TRUE]

\* save_or_update_user with an except clause that logs and raises again: the
\* fault leaves the function.
SaveOrUpdateUserReraises(user, coll, now1, now2, fault) ==
    IF user = NoUser
    THEN [coll |-> coll, log |-> NoLog, raised |-> FALSE]
    ELSE IF fault
    THEN [coll |-> coll,
          log |-> [level |-> "ERROR", msg |-> "MongoDB error in save_or_update_user"],
          raised |-> TRUE]
    ELSE LET r == UpdateOne(coll, user.id,
                      [first_name |-> user.first_name, last_name |-> user.last_name,
                       username |-> user.username, is_bot |-> user.is_bot,
                       updated_at |-> now1],
                      [telegram_id |-> user.id, created_at |-> now2])
         IN  [coll |-> r.coll,
              log |-> [level |-> "INFO",
                       msg |-> IF r.upserted THEN "New user saved" ELSE "User updated"],
              raised |-> FALSE]

\* save_or_update_user(user).  now1 and now2 are the two datetime.utcnow()
\* reads, in the order the argument dicts are built: '$set' first, then
\* '$setOnInsert'.  fault: update_one raises.  The result is the collection,
\* the record logged, and whether an exception leaves the function.
SaveOrUpdateUser(user, coll, now1, now2, fault) ==
    IF user = NoUser
    THEN [coll |-> coll, log |-> NoLog, raised |-> FALSE]
    ELSE IF fault
    THEN [coll |-> coll,
          log |-> [level |-> "ERROR", msg |-> "MongoDB error in save_or_update_user"],
          raised |-> FALSE]
    ELSE LET r == UpdateOne(coll, user.id,
                      [first_name |-> user.first_name, last_name |-> user.last_name,
                       username |-> user.username, is_bot |-> user.is_bot,
                       updated_at |-> now1],
                      [telegram_id |-> user.id, created_at |-> now2])
         IN  [coll |-> r.coll,
              log |-> [level |-> "INFO",
                       msg |-> IF r.upserted THEN "New user saved" ELSE "User updated"],
              raised |-> FALSE]

\* is_admin that lets everyone in.
is_admin_always(user_id, admins) == TRUE

\* is_admin(user_id), with SUDO_OWNER_IDS passed in.
is_admin(user_id, admins) == user_id \in admins

\* ------------------------------------------------------------------ Init

Init ==
    /\ telegram_users_collection = <<>>
    /\ SUDO_OWNER_IDS \in { ParseSudoIds(s) : s \in SudoEnvValues }
    /\ clock = 0
    /\ pending = EmptyBag
    /\ last = NoEvent
    /\ db_op = NoOp
    /\ log = NoLog
    /\ outbox = NoMessage
    /\ users_collection = <<>>
    /\ main_pc = [p \in Procs |-> Idle]
    /\ main_last = NoEvent
    /\ main_out = NoMessage

\* --------------------------------------------------- bot.py: registration

\* The clock advances between any two steps.
Tick ==
    /\ clock < MaxClock
    /\ clock' = clock + 1
    /\ UNCHANGED <<telegram_users_collection, SUDO_OWNER_IDS, pending, last,
                   db_op, log, outbox, mainVars>>

\* A handler is suspended at an await.
Suspend(handler, user) ==
    /\ BagCardinality(pending) < MaxTasks
    /\ pending' = pending (+) SetToBag({[handler |-> handler, user |-> user]})

\* A suspended handler is resumed.
Resume(task) == pending' = pending (-) SetToBag({task})

\* The part of a handler from its call of save_or_update_user(user) to the
\* Telegram call that follows it.  The clock may advance by d between the two
\* utcnow() reads.  When save_or_update_user raises, the handler ends there.
SaveThenReply(handler, user, reply) ==
    \E d \in 0..1, fault \in BOOLEAN :
        /\ clock + d <= MaxClock
        /\ LET r == SaveOrUpdateUser(user, telegram_users_collection,
                                     clock, clock + d, fault)
           IN  /\ telegram_users_collection' = r.coll
               /\ log' = r.log
               /\ outbox' = IF r.raised THEN NoMessage ELSE reply
        /\ clock' = clock + d
        /\ db_op' = [op |-> "update_one", by |-> user.id]
        /\ last' = [handler |-> handler, user |-> user]
        /\ UNCHANGED <<SUDO_OWNER_IDS, mainVars>>

\* start_command: save_or_update_user has no await inside, so the handler
\* runs from its start to reply_text without interruption.
StartCommand(u) ==
    /\ SaveThenReply("start_command", u, Message(u.id, "reply_text", WelcomeText))
    /\ UNCHANGED pending

\* confirmation_button_handler up to `await query.answer()`.
ConfirmAnswer(u) ==
    /\ Suspend("confirmation_button_handler", u)
    /\ last' = [handler |-> "confirmation_button_handler:answer", user |-> u]
    /\ outbox' = Message(u.id, "answer", "")
    /\ log' = NoLog
    /\ db_op' = NoOp
    /\ UNCHANGED <<telegram_users_collection, SUDO_OWNER_IDS, clock, mainVars>>

\* confirmation_button_handler from save_or_update_user to edit_message_text.
ConfirmSave(task) ==
    /\ BagIn(task, pending)
    /\ task.handler = "confirmation_button_handler"
    /\ Resume(task)
    /\ SaveThenReply("confirmation_button_handler", task.user,
                     Message(task.user.id, "edit_message_text", ConfirmedText))

\* The handlers main() registers: four commands and one callback pattern.
RegisteredCommands == {"start", "ping", "id", "full"}

\* A text message that is not a command: no handler is registered for it,
\* so the application drops the update.
TextMessage(u) ==
    /\ "text" \notin RegisteredCommands
    /\ last' = [handler |-> "unhandled", user |-> u]
    /\ outbox' = NoMessage
    /\ log' = NoLog
    /\ db_op' = NoOp
    /\ UNCHANGED <<telegram_users_collection, SUDO_OWNER_IDS, clock, pending,
                   mainVars>>

\* --------------------------------------------------- bot.py: admin commands

ReportHeader ==
    <<"F", "u", "l", "l", " ", "N", "a", "m", "e", ",", " ", "U", "s", "e", "r", "n", "a", "m", "e", ",", " ", "T", "e", "l", "e", "g", "r", "a", "m", " ", "I", "D">>

CaptionPrefix ==
    <<"T", "o", "t", "a", "l", " ", "u", "s", "e", "r", "s", " ", "r", "e", "g", "i", "s", "t", "e", "r", "e", "d", ":", " ">>

NotAvailable == <<"N", "/", "A">>

\* The element separator of both reports' fields.
CommaSpace == <<",", " ">>

\* find({}): every document, in natural order.
Find(coll) == coll

\* The list comprehension of id_command: str(doc['telegram_id']) per document.
UserIdStrings(docs) == [i \in 1..Len(docs) |-> IntToStr(docs[i].telegram_id)]

\* One pass of the loop of full_command: the line of one document.
FullReportLine(user) ==
    LET full_name == Strip(Format(DictGet(user, "first_name", Str(<<>>)))
                           \o <<" ">>
                           \o Format(DictGet(user, "last_name", Str(<<>>))))
        username == IF Truthy(DictGet(user, "username", None))
                    THEN <<"@">> \o Format(DictGet(user, "username", None))
                    ELSE NotAvailable
    IN  full_name \o CommaSpace \o username \o CommaSpace
        \o IntToStr(DictGet(user, "telegram_id", 0))

\* report_lines of full_command: the header, then one line per document.
ReportLines(docs) ==
    <<ReportHeader>> \o [i \in 1..Len(docs) |-> FullReportLine(docs[i])]

\* What a privileged handler does for an actor that is not an admin: it
\* returns at once.
Refuse(handler, u) ==
    /\ last' = [handler |-> handler, user |-> u]
    /\ outbox' = NoMessage
    /\ log' = NoLog
    /\ db_op' = NoOp
    /\ UNCHANGED <<telegram_users_collection, SUDO_OWNER_IDS, clock, pending,
                   mainVars>>

\* ping_command up to `await update.message.reply_text("Pinging...")`.
PingCommand(u) ==
    IF ~is_admin(u.id, SUDO_OWNER_IDS)
    THEN Refuse("ping_command", u)
    ELSE /\ Suspend("ping_command", u)
         /\ last' = [handler |-> "ping_command", user |-> u]
         /\ outbox' = Message(u.id, "reply_text", PingingText)
         /\ log' = NoLog
         /\ db_op' = NoOp
         /\ UNCHANGED <<telegram_users_collection, SUDO_OWNER_IDS, clock, mainVars>>

\* ping_command from db.command('ping') to message.edit_text.  The latencies
\* are not modelled; fault: the database ping raises.
PingDb(task) ==
    /\ BagIn(task, pending)
    /\ task.handler = "ping_command"
    /\ Resume(task)
    /\ \E fault \in BOOLEAN :
        /\ log' = IF fault THEN [level |-> "ERROR", msg |-> "Database ping failed"]
                  ELSE NoLog
        /\ outbox' = Message(task.user.id, "edit_text",
                             IF fault THEN PongFailedText ELSE PongText)
    /\ db_op' = [op |-> "ping", by |-> task.user.id]
    /\ last' = [handler |-> "ping_command:db", user |-> task.user]
    /\ UNCHANGED <<telegram_users_collection, SUDO_OWNER_IDS, clock, mainVars>>

\* The reply of id_command for the documents found.
IdReply(u, docs) ==
    IF UserIdStrings(docs) = <<>>
    THEN Message(u.id, "reply_text", EmptyText)
    ELSE Document(u.id, "telegram_user_ids.txt",
                  Join(CommaSpace, UserIdStrings(docs)), <<>>)

\* The reply of full_command for the documents found.
FullReply(u, docs) ==
    IF Len(docs) = 0
    THEN Message(u.id, "reply_text", EmptyText)
    ELSE Document(u.id, "full_user_report.txt",
                  Join(<<"\n">>, ReportLines(docs)),
                  CaptionPrefix \o IntToStr(Len(docs)))

\* id_command and full_command have no await before their reply: the handler
\* runs from the admin check to the reply without interruption.  fault: the
\* find or the reply raises, and the except clause replies instead.
Report(handler, u, reply, errorMsg) ==
    IF ~is_admin(u.id, SUDO_OWNER_IDS)
    THEN Refuse(handler, u)
    ELSE /\ \E fault \in BOOLEAN :
            /\ log' = IF fault THEN [level |-> "ERROR", msg |-> errorMsg] ELSE NoLog
            /\ outbox' = IF fault THEN Message(u.id, "reply_text", ReportErrorText)
                         ELSE reply
         /\ db_op' = [op |-> "find", by |-> u.id]
         /\ last' = [handler |-> handler, user |-> u]
         /\ UNCHANGED <<telegram_users_collection, SUDO_OWNER_IDS, clock, pending,
                        mainVars>>

IdCommand(u) ==
    Report("id_command", u, IdReply(u, Find(telegram_users_collection)),
           "Error in /id command")

FullCommand(u) ==
    Report("full_command", u, FullReply(u, Find(telegram_users_collection)),
           "Error in /full command")

\* ------------------------------------------------------------------ main.py

\* find_one({"user_id": user_id}): whether a document matches.
FindOne(coll, user_id) == \E i \in 1..Len(coll) : coll[i].user_id = user_id

\* insert_one(doc)
InsertOne(coll, doc) == Append(coll, doc)

\* start, in process p, up to the result of find_one.  When a document is
\* found the handler replies and ends; otherwise its next call is insert_one.
\* Both calls are synchronous: no other handler of p runs between them, but
\* another process that shares the collection does.
MainStartFind(p, u) ==
    /\ main_pc[p].pc = "idle"
    /\ main_last' = [handler |-> "start", user |-> u]
    /\ IF FindOne(users_collection, u.id)
       THEN /\ main_out' = Message(u.id, "reply_text", AlreadyText)
            /\ UNCHANGED main_pc
       ELSE /\ main_pc' = [main_pc EXCEPT ![p] = [pc |-> "insert_one", user |-> u]]
            /\ UNCHANGED main_out
    /\ UNCHANGED <<users_collection, botVars>>

\* start, in process p, from insert_one to reply_text.
MainStartInsert(p) ==
    /\ main_pc[p].pc = "insert_one"
    /\ users_collection' =
           InsertOne(users_collection,
                     [user_id |-> main_pc[p].user.id,
                      username |-> main_pc[p].user.username])
    /\ main_out' = Message(main_pc[p].user.id, "reply_text", AddedText)
    /\ main_pc' = [main_pc EXCEPT ![p] = Idle]
    /\ UNCHANGED <<main_last, botVars>>

\* ----------------------------------------------------------- specifications

PendingTasks == BagToSet(pending)

BotNext ==
    \/ Tick
    \/ \E u \in Users : StartCommand(u)
    \/ \E u \in Users : ConfirmAnswer(u)
    \/ \E task \in PendingTasks : ConfirmSave(task)
    \/ \E u \in Users : TextMessage(u)
    \/ \E u \in Users : PingCommand(u)
    \/ \E task \in PendingTasks : PingDb(task)
    \/ \E u \in Users : IdCommand(u)
    \/ \E u \in Users : FullCommand(u)

MainNext ==
    \/ \E p \in Procs, u \in Users : MainStartFind(p, u)
    \/ \E p \in Procs : MainStartInsert(p)

\* bot.py
Spec == Init /\ [][BotNext]_vars

\* main.py
SpecMain == Init /\ [][MainNext]_vars

\* ------------------------------------------------------------------ claims

Store == telegram_users_collection

SaveHandlers == {"start_command", "confirmation_button_handler"}

PrivilegedHandlers == {"ping_command", "id_command", "full_command"}

\* The last step was save_or_update_user writing the actor's record.
Saved == last.handler \in SaveHandlers /\ log.level = "INFO"

\* The last step was a privileged command of an actor that is no admin.
Refused == last.handler \in PrivilegedHandlers /\ last.user.id \notin SUDO_OWNER_IDS

NoDuplicateIds ==
    \A i, j \in 1..Len(Store) :
        Store[i].telegram_id = Store[j].telegram_id => i = j

\* A step that writes the store leaves exactly one record of some id, stamped
\* with the time that step read first, and no other record changed.
OneRecordWritten ==
    Store' # Store =>
        \E id \in UserIds :
            /\ Cardinality(Matching(Store', id)) = 1
            /\ \A i \in Matching(Store', id) : Store'[i].updated_at = clock
            /\ \A i \in 1..Len(Store) :
                   Store[i].telegram_id # id => Store'[i] = Store[i]

\* C1: however the upserts of start_command and confirmation_button_handler
\* for one id interleave, the store never holds two records with that
\* telegram_id; after each write exactly one record of the id is there, and
\* its updated_at is the timestamp the writing call took.
C1_ConcurrentUpsertKeepsOneRecord ==
    [][NoDuplicateIds' /\ OneRecordWritten]_vars

\* C1 witness: a confirmation handler of an id is still suspended before its
\* upsert while another handler has just written the record of the same id
\* with another profile, and the id has its one record.
C1_Witness ==
    /\ Saved
    /\ log.msg = "User updated"
    /\ \E task \in PendingTasks :
           /\ task.handler = "confirmation_button_handler"
           /\ task.user.id = last.user.id
           /\ task.user # last.user
    /\ Cardinality(Matching(Store, last.user.id)) = 1

\* C2: no interleaving of the find_one and insert_one steps of main.py's
\* start handlers leaves two records with the same user_id.
C2_MainNoDuplicateUserIds ==
    \A i, j \in 1..Len(users_collection) :
        users_collection[i].user_id = users_collection[j].user_id => i = j

\* C3: every stored record has created_at <= updated_at, and the record that
\* the first upsert of an id created has created_at = updated_at.
C3_CreatedNotAfterUpdated ==
    /\ \A i \in 1..Len(Store) : Store[i].created_at <= Store[i].updated_at
    /\ (Saved /\ log.msg = "New user saved") =>
           \A i \in Matching(Store, last.user.id) :
               Store[i].created_at = Store[i].updated_at

\* The step is an observation written at the time now: a new record gets
\* created_at = updated_at = now, a record that was there keeps its
\* created_at and gets updated_at = now; the id has one record afterwards.
WrittenAt(now) ==
    \E id \in UserIds :
        /\ Cardinality(Matching(Store', id)) = 1
        /\ \A i \in Matching(Store', id) :
               /\ Store'[i].updated_at = now
               /\ Store'[i].created_at =
                      IF Matching(Store, id) = {} THEN now ELSE Store[i].created_at
        /\ \A i \in 1..Len(Store) :
               Store[i].telegram_id # id => Store'[i] = Store[i]

\* C4: observing an identity N times in sequence leaves one record of its
\* id, with created_at the time of the first observation, never changed
\* afterwards, and updated_at the time of the last one.  The time of an
\* observation is any one instant of the call: the clock at its start or at
\* its end.
C4_CreatedFirstUpdatedLast ==
    [][Store' # Store => \E now \in {clock, clock'} : WrittenAt(now)]_vars

\* The step is bot.py's start_command updating a record that was there: the
\* record takes the observed fields and keeps its telegram_id and created_at.
BotOverwrites ==
    (last'.handler = "start_command" /\ log'.msg = "User updated") =>
        /\ Matching(Store', last'.user.id) = Matching(Store, last'.user.id)
        /\ \A i \in Matching(Store', last'.user.id) :
               /\ Store'[i].username = last'.user.username
               /\ Store'[i].first_name = last'.user.first_name
               /\ Store'[i].last_name = last'.user.last_name
               /\ Store'[i].is_bot = last'.user.is_bot
               /\ Store'[i].telegram_id = Store[i].telegram_id
               /\ Store'[i].created_at = Store[i].created_at

\* The step is main.py's start finding the actor's record: the record takes
\* the observed username and keeps its user_id.
MainOverwrites ==
    (main_out'.text = AlreadyText /\ main_last'.handler = "start") =>
        \E i \in 1..Len(users_collection) :
            /\ users_collection[i].user_id = main_last'.user.id
            /\ users_collection'[i].user_id = main_last'.user.id
            /\ users_collection'[i].username = main_last'.user.username

\* C5: when an identity that has a record sends start again, the handler
\* overwrites the stored username and the other observed fields with the
\* observed values and leaves the id and created_at as they were, in bot.py
\* and in main.py.
C5_StartOverwritesFields ==
    [][BotOverwrites /\ MainOverwrites]_vars

\* What bot.py lets through its admin check: an actor that is no admin causes
\* no store operation, no log record and no Telegram call; find and ping are
\* only issued for an admin, and a document only goes to an admin.
GateHolds ==
    /\ Refused => (db_op = NoOp /\ outbox = NoMessage /\ log = NoLog)
    /\ db_op.op \in {"find", "ping"} => db_op.by \in SUDO_OWNER_IDS
    /\ outbox.kind = "reply_document" => outbox.to \in SUDO_OWNER_IDS

\* C6: a privileged command of an actor outside SUDO_OWNER_IDS performs no
\* store operation and builds no report, a document is only ever sent to an
\* actor in SUDO_OWNER_IDS, and SUDO_OWNER_IDS never changes.
C6_AdminGate ==
    [][SUDO_OWNER_IDS' = SUDO_OWNER_IDS /\ GateHolds']_vars

\* C6 witness: an actor that is no admin has just invoked a privileged
\* command while the store holds records.
C6_Witness ==
    /\ Refused
    /\ Len(Store) > 0
    /\ GateHolds

\* C7: an actor that is no admin and invokes ping, id or full receives a
\* reply, the denial message.
C7_DenialReply ==
    Refused => (outbox.kind = "reply_text" /\ outbox.to = last.user.id)

\* The reply a saving handler sends when the write succeeds.
SuccessReply(event) ==
    IF event.handler = "start_command"
    THEN Message(event.user.id, "reply_text", WelcomeText)
    ELSE Message(event.user.id, "edit_message_text", ConfirmedText)

\* C8: when the write of save_or_update_user fails, the store is left as it
\* was and the handler sends the reply it sends on success: the fault does
\* not reach it.
C8_FaultSwallowed ==
    [][(last'.handler \in SaveHandlers /\ log'.level = "ERROR") =>
           /\ Store' = Store
           /\ outbox' = SuccessReply(last')
           /\ db_op' = [op |-> "update_one", by |-> last'.user.id]]_vars

\* C8 witness: the write of a confirmation handler failed while the store
\* holds a record, and the confirmation text was sent.
C8_Witness ==
    /\ last.handler = "confirmation_button_handler"
    /\ log.level = "ERROR"
    /\ outbox.text = ConfirmedText
    /\ Len(Store) > 0

\* C9: after a text message that is no registered command is handled, the
\* store holds a record of the sender's id.
C9_TextMessageObserved ==
    last.handler = "unhandled" => Matching(Store, last.user.id) # {}

\* The line the claim expects for a record: first name, N/A, id.
ExpectedLine(doc) ==
    Format(doc.first_name) \o CommaSpace \o NotAvailable \o CommaSpace
    \o IntToStr(doc.telegram_id)

\* C10: in the report full_command sends, the line of every record stored
\* from an observation without last_name and username is
\* "<first_name>, N/A, <id>".
C10_ReportLineOfBareProfile ==
    (last.handler = "full_command" /\ outbox.kind = "reply_document") =>
        LET lines == Split(outbox.document, "\n") IN
        \A i \in 1..Len(Store) :
            (Store[i].last_name = None /\ Store[i].username = None) =>
                lines[i + 1] = ExpectedLine(Store[i])

====
